---- MODULE Spec2Model ----
(***************************************************************************)
(* xr-tui: HDF5 ingestion with reference resolution (xr_tui/hdf_reader.py) *)
(* and the N-D slice plot (xr_tui/cli.py PlotScreen, xr_tui/plotting.py    *)
(* PlotNDWidget, whose _plot_variable_nd bodies are the same code).        *)
(*                                                                         *)
(* Three specifications:                                                   *)
(*   SpecIngest   hdf5_to_datatree over a bounded family of raw containers *)
(*   SpecProject  _plot_variable_nd over bounded arrays and arguments      *)
(*   SpecScreen   the N-D plot screen under radio and slider events        *)
(***************************************************************************)
EXTENDS Integers, Sequences, FiniteSets, TLC

VARIABLES
    file,          \* the open h5py.File: links of each group, raw datasets
    metaEq,        \* whether numpy's dtype == ignores dtype metadata
    group,         \* the `group` argument of hdf5_to_datatree (path parts)
    pc,            \* position in hdf5_to_datatree
    stack,         \* call stack of hdf5_group_to_datatree frames
    tree,          \* the DataTree built by hdf5_group_to_datatree("root", f, f)
    result,        \* what hdf5_to_datatree returned or raised
    loaded,        \* the last load_dataset_with_refs call: its dataset and outcome
    variable,      \* the xr.DataArray shown by the plot screen
    call,          \* arguments of the last _plot_variable_nd call
    plot,          \* what the last _plot_variable_nd call computed
    screen         \* the plot screen's widgets: two radio sets and the sliders

ingestVars == <<file, metaEq, group, pc, stack, tree, result, loaded>>
plotVars == <<variable, call, plot, screen>>
vars == <<file, metaEq, group, pc, stack, tree, result, loaded, variable, call, plot, screen>>

(***************************************************************************)
(* Bounds                                                                  *)
(***************************************************************************)
MaxRefs == 2       \* longest buffer of references
MaxRank == 4       \* highest rank of a plotted array
MaxExtent == 3     \* largest extent of a dimension of a plotted array
RecursionLimit == 5  \* frames of hdf5_group_to_datatree before RecursionError

(***************************************************************************)
(* Python values.  Every value is a record with a tag.                     *)
(***************************************************************************)
None == [tag |-> "None"]
Num(n) == [tag |-> "num", v |-> n]
Text(s) == [tag |-> "text", v |-> s]
Reference(o) == [tag |-> "ref", to |-> o]
RegionReference(o, lo, hi) == [tag |-> "regref", to |-> o, lo |-> lo, hi |-> hi]
NullObj == "null"
GroupTag == [tag |-> "str", v |-> "group"]

IsReference(v) == v.tag \in {"ref", "regref"}

Ok(v) == [ok |-> TRUE, val |-> v]
Raise(e) == [ok |-> FALSE, exc |-> e]

(***************************************************************************)
(* numpy dtypes: the kind character and the metadata h5py attaches.        *)
(***************************************************************************)
Dtype(k, m) == [kind |-> k, meta |-> m]
int_dtype == Dtype("i", "none")
float_dtype == Dtype("f", "none")
bool_dtype == Dtype("b", "none")
bytes_dtype == Dtype("S", "none")
vlen_dtype == Dtype("O", "vlen")
object_dtype == Dtype("O", "none")
ref_dtype == Dtype("O", "ref")
regionref_dtype == Dtype("O", "regionref")

\* numpy's dtype.__eq__.  h5py's special dtypes are object dtypes that differ
\* only in metadata; whether == sees the metadata depends on the numpy build,
\* so both outcomes are kept (ignores = TRUE: metadata is not compared).
DtypeEq(a, b, ignores) == a.kind = b.kind /\ (ignores \/ a.meta = b.meta)

RECURSIVE Product(_)
Product(shape) == IF shape = <<>> THEN 1 ELSE Head(shape) * Product(Tail(shape))

NdArray(dt, shape, data) == [tag |-> "ndarray", dtype |-> dt, shape |-> shape, data |-> data]

(***************************************************************************)
(* The raw container.                                                      *)
(***************************************************************************)
Groups == {"root", "g1", "g2"}
Datasets == {"d1", "d2", "d3"}
Datatypes == {"t1"}

\* group.items(): (name, object) pairs in h5py's iteration order (by name).
Links ==
    [root |-> <<<<"a", "d1">>, <<"b", "d2">>, <<"g", "g1">>>>,
     g1 |-> <<<<"a", "d3">>, <<"h", "g2">>, <<"t", "t1">>>>,
     g2 |-> <<>>]

\* The same groups with g2 linked from the root as well (two links to one group).
SharedLinks == [Links EXCEPT !["root"] = Append(@, <<"k", "g2">>)]

\* The same groups with a hard link from g2 back to its parent g1.
CyclicLinks == [Links EXCEPT !["g2"] = <<<<"up", "g1">>>>]

RawDataset(dt, shape, data) == [dtype |-> dt, shape |-> shape, data |-> data, corrupt |-> FALSE]
Corrupt == [dtype |-> int_dtype, shape |-> <<2>>, data |-> <<Num(1), Num(2)>>, corrupt |-> TRUE]

PlainDtypes == {int_dtype, float_dtype, bool_dtype, bytes_dtype, vlen_dtype}
PlainShapes == {<<>>, <<0>>, <<2>>, <<2, 2>>}
TextValues == <<"a", "s", "b", "z">>
PlainElem(dt, i) == IF dt.kind \in {"S", "O"} THEN Text(TextValues[i]) ELSE Num(i)
Plain(dt, shape) == RawDataset(dt, shape, [i \in 1..Product(shape) |-> PlainElem(dt, i)])

RefTargets == {NullObj, "d2", "d3", "g1", "t1"}
RefBuffers ==
    {RawDataset(ref_dtype, <<Len(f)>>, [i \in 1..Len(f) |-> Reference(f[i])]) :
        f \in UNION {[1..k -> RefTargets] : k \in 0..MaxRefs}}
ScalarRefs == {RawDataset(ref_dtype, <<>>, <<Reference(o)>>) : o \in RefTargets}

\* Region references select elements lo..hi (flat, 1-based) of their dataset.
RegionRefs == {RegionReference("d1", 1, 1), RegionReference("d2", 1, 1), RegionReference("d2", 1, 2)}
RegionBuffers ==
    {RawDataset(regionref_dtype, <<0>>, <<>>)}
    \cup {RawDataset(regionref_dtype, <<1>>, <<r>>) : r \in RegionRefs}

FirstDatasets ==
    {Plain(dt, s) : dt \in PlainDtypes, s \in PlainShapes}
    \cup RefBuffers \cup ScalarRefs \cup RegionBuffers \cup {Corrupt}
SecondDatasets ==
    {Plain(int_dtype, <<2>>), Plain(int_dtype, <<2, 2>>), Plain(float_dtype, <<>>),
     RawDataset(ref_dtype, <<1>>, <<Reference("d3")>>), Corrupt}
ThirdDatasets ==
    {Plain(int_dtype, <<2>>), Plain(float_dtype, <<2, 2>>),
     RawDataset(ref_dtype, <<1>>, <<Reference("d2")>>)}

Files ==
    {[links |-> l, dsets |-> [d1 |-> x, d2 |-> y, d3 |-> z]] :
        l \in {Links, SharedLinks, CyclicLinks},
        x \in FirstDatasets, y \in SecondDatasets, z \in ThirdDatasets}

IsDataset(o) == o \in Datasets
IsGroup(o) == o \in Groups

(***************************************************************************)
(* h5py reads                                                              *)
(***************************************************************************)
\* dataset[()]: the whole buffer.  A rank-0 dataset reads as a numpy scalar, or,
\* for an object dtype, as the bare Python object (bytes, Reference), which has
\* neither .shape nor .flat.
ReadDataset(f, d) ==
    LET ds == f.dsets[d] IN
    IF ds.corrupt THEN Raise("OSError")
    ELSE IF ds.shape = <<>> /\ ds.dtype.kind = "O" THEN Ok(ds.data[1])
    ELSE Ok(NdArray(ds.dtype, ds.shape, ds.data))

\* file[ref]: h5py's Group.__getitem__ with a Reference (RegionReference is a
\* subclass) or with a name, looked up from the root group.
Dereference(f, ref) ==
    IF IsReference(ref)
    THEN IF ref.to = NullObj THEN Raise("ValueError") ELSE Ok(ref.to)
    ELSE IF ref.tag = "text"
    THEN LET hits == {i \in 1..Len(f.links["root"]) : f.links["root"][i][1] = ref.v} IN
         IF hits = {} THEN Raise("KeyError")
         ELSE Ok(f.links["root"][CHOOSE i \in hits : TRUE][2])
    ELSE Raise("TypeError")

\* The dict comprehension of resolve_reference over obj.items().
GroupSummary(f, g) ==
    LET items == f.links[g]
        reads == [i \in 1..Len(items) |->
                    IF IsDataset(items[i][2]) THEN ReadDataset(f, items[i][2]) ELSE Ok(GroupTag)]
        bad == {i \in 1..Len(items) : ~reads[i].ok}
    IN  IF bad # {} THEN reads[CHOOSE i \in bad : \A j \in bad : i <= j]
        ELSE Ok([tag |-> "dict", items |-> {<<items[i][1], reads[i].val>> : i \in 1..Len(items)}])

resolve_reference(f, ref) ==
    LET obj == Dereference(f, ref) IN
    IF ~obj.ok THEN obj
    ELSE IF IsDataset(obj.val) THEN ReadDataset(f, obj.val)
    ELSE IF IsGroup(obj.val) THEN GroupSummary(f, obj.val)
    ELSE Ok(None)

\* The elements lo..hi of a buffer, as h5py returns a selection: a 1-D array.
Region(arr, lo, hi) == NdArray(arr.dtype, <<hi - lo + 1>>, SubSeq(arr.data, lo, hi))

\* dataset[regref]: h5py accepts only a region of the dataset it is applied to.
resolve_region_reference(f, d, regref) ==
    IF regref.to # d THEN Raise("ValueError")
    ELSE LET r == ReadDataset(f, d) IN
         IF ~r.ok THEN r ELSE Ok(Region(r.val, regref.lo, regref.hi))

\* The elements np.ndenumerate(arr) visits.
Elems(arr) == IF arr.tag = "ndarray" THEN arr.data ELSE <<>>

\* out = np.empty(arr.shape, dtype=object); out[idx] = <resolved> for each
\* element, rs[i] being the outcome of resolving element i; the first element
\* whose resolution raises ends the loop.
ResolveEach(arr, rs) ==
    IF arr.tag # "ndarray" THEN Raise("AttributeError")
    ELSE LET bad == {i \in 1..Len(arr.data) : ~rs[i].ok} IN
         IF bad # {} THEN rs[CHOOSE i \in bad : \A j \in bad : i <= j]
         ELSE Ok(NdArray(object_dtype, arr.shape, [i \in 1..Len(arr.data) |-> rs[i].val]))

\* isinstance(arr.flat[0], h5py.Reference), with what evaluating arr.flat[0] raises.
FirstIsReference(arr) ==
    IF arr.tag # "ndarray" THEN Raise("AttributeError")
    ELSE IF Len(arr.data) = 0 THEN Raise("IndexError")
    ELSE Ok(IsReference(arr.data[1]))

load_dataset_with_refs(f, d, ignores) ==
    LET r == ReadDataset(f, d)
        dt == f.dsets[d].dtype
        ByObject == [i \in 1..Len(Elems(r.val)) |-> resolve_reference(f, Elems(r.val)[i])]
        ByRegion == [i \in 1..Len(Elems(r.val)) |-> resolve_region_reference(f, d, Elems(r.val)[i])]
    IN  IF ~r.ok THEN r
        ELSE IF DtypeEq(dt, ref_dtype, ignores) THEN ResolveEach(r.val, ByObject)
        ELSE LET first == IF dt.kind = "O" THEN FirstIsReference(r.val) ELSE Ok(FALSE) IN
             IF ~first.ok THEN first
             ELSE IF first.val THEN ResolveEach(r.val, ByObject)
             ELSE IF DtypeEq(dt, regionref_dtype, ignores) THEN ResolveEach(r.val, ByRegion)
             ELSE r

\* f"{name}_dim_{i}" for i in range(arr.ndim)
infer_dims(name, arr) == [i \in 1..Len(arr.shape) |-> name \o "_dim_" \o ToString(i - 1)]

(***************************************************************************)
(* hdf5_group_to_datatree, one frame per call                              *)
(***************************************************************************)
Var(key, dims, data) == [key |-> key, dims |-> dims, data |-> data]
NoDataset == [data_vars |-> {}, coords |-> {}]

Frame(name, g) ==
    [name |-> name, grp |-> g, phase |-> "datasets", i |-> 1,
     variables |-> {}, coords |-> {}, ds |-> NoDataset, children |-> {}]

Top == stack[Len(stack)]
Items == file.links[Top.grp]
SetTop(fr) == [stack EXCEPT ![Len(stack)] = fr]

\* xr.Dataset(variables), then ds.assign_coords(coords) when coords is not empty:
\* the names given as coordinates leave the data variables.
MakeDataset(variables, coords) ==
    [data_vars |-> {v \in variables : v.key \notin {c.key : c \in coords}},
     coords |-> coords]

\* xr.DataTree(name=name, dataset=ds if ds.data_vars else None, children=children)
DataTree(name, ds, children) ==
    LET kept == IF ds.data_vars # {} THEN ds ELSE NoDataset IN
    [name |-> name, data_vars |-> kept.data_vars, coords |-> kept.coords,
     children |-> children]

\* The index of the first group among items[j..], or 0.
NextGroup(items, j) ==
    LET gs == {k \in j..Len(items) : IsGroup(items[k][2])} IN
    IF gs = {} THEN 0 ELSE CHOOSE k \in gs : \A m \in gs : k <= m

NoResult == [kind |-> "none"]
Raised(e) == [kind |-> "error", exc |-> e, msg |-> "", path |-> <<>>]

\* with h5py.File(path, "r") as f: tree = hdf5_group_to_datatree("root", f, f)
OpenFile ==
    /\ pc = "start"
    /\ stack' = <<Frame("root", "root")>>
    /\ pc' = "build"
    /\ UNCHANGED <<file, metaEq, group, tree, result, loaded, plotVars>>

\* One iteration of `for key, item in group.items()`.  An exception of
\* load_dataset_with_refs is caught nowhere: it leaves every frame and
\* hdf5_to_datatree itself.
LoadItem ==
    /\ pc = "build"
    /\ Top.phase = "datasets"
    /\ Top.i <= Len(Items)
    /\ LET key == Items[Top.i][1]
           item == Items[Top.i][2]
           r == load_dataset_with_refs(file, item, metaEq)
       IN  IF ~IsDataset(item)
           THEN /\ stack' = SetTop([Top EXCEPT !.i = @ + 1])
                /\ UNCHANGED <<pc, result, loaded>>
           ELSE IF ~r.ok
           THEN /\ stack' = <<>>
                /\ pc' = "raised"
                /\ result' = Raised(r.exc)
                /\ loaded' = [tag |-> "load", d |-> item, r |-> r]
           ELSE LET v == Var(key, infer_dims(key, r.val), r.val) IN
                /\ loaded' = [tag |-> "load", d |-> item, r |-> r]
                /\ stack' = SetTop([Top EXCEPT
                        !.i = @ + 1,
                        !.variables = {w \in @ : w.key # key} \cup {v},
                        !.coords = IF Len(r.val.shape) = 1
                                   THEN {w \in @ : w.key # key} \cup {v} ELSE @])
                /\ UNCHANGED <<pc, result>>
    /\ UNCHANGED <<file, metaEq, group, tree, plotVars>>

\* ds = xr.Dataset(variables); if coords: ds = ds.assign_coords(coords)
BuildDataset ==
    /\ pc = "build"
    /\ Top.phase = "datasets"
    /\ Top.i > Len(Items)
    /\ stack' = SetTop([Top EXCEPT !.phase = "children", !.i = 1,
                                   !.ds = MakeDataset(Top.variables, Top.coords)])
    /\ UNCHANGED <<file, metaEq, group, pc, tree, result, loaded, plotVars>>

\* The children comprehension reaches the next item that is a group and calls
\* hdf5_group_to_datatree(key, item, file); the call that exceeds the
\* interpreter's recursion limit raises RecursionError instead.
EnterChild ==
    /\ pc = "build"
    /\ Top.phase = "children"
    /\ NextGroup(Items, Top.i) # 0
    /\ LET k == NextGroup(Items, Top.i) IN
       IF Len(stack) >= RecursionLimit
       THEN /\ stack' = <<>>
            /\ pc' = "raised"
            /\ result' = Raised("RecursionError")
       ELSE /\ stack' = Append(SetTop([Top EXCEPT !.i = k + 1]), Frame(Items[k][1], Items[k][2]))
            /\ UNCHANGED <<pc, result>>
    /\ UNCHANGED <<file, metaEq, group, tree, loaded, plotVars>>

\* return xr.DataTree(...): to the calling frame's children, or to hdf5_to_datatree.
ReturnTree ==
    /\ pc = "build"
    /\ Top.phase = "children"
    /\ NextGroup(Items, Top.i) = 0
    /\ LET node == DataTree(Top.name, Top.ds, Top.children)
           n == Len(stack)
       IN  IF n = 1
           THEN /\ stack' = <<>>
                /\ tree' = node
                /\ pc' = "built"
           ELSE /\ stack' = [SubSeq(stack, 1, n - 1) EXCEPT ![n - 1].children = @ \cup {node}]
                /\ UNCHANGED <<tree, pc>>
    /\ UNCHANGED <<file, metaEq, group, result, loaded, plotVars>>

\* DataTree.get(key): a child of that name, else a variable of the node's dataset.
NodeGet(node, key) ==
    LET cs == {c \in node.children : c.name = key}
        vs == {v \in node.data_vars \cup node.coords : v.key = key}
    IN  IF cs # {} THEN [kind |-> "tree", node |-> CHOOSE c \in cs : TRUE]
        ELSE IF vs # {} THEN [kind |-> "array", var |-> CHOOSE v \in vs : TRUE]
        ELSE NoResult

\* tree[group]: DataTree.__getitem__ walks the path part by part and raises
\* KeyError at the first part that names nothing.
RECURSIVE GetItem(_, _)
GetItem(at, parts) ==
    IF parts = <<>> THEN Ok(at)
    ELSE IF at.kind # "tree" THEN Raise("AttributeError")
    ELSE LET child == NodeGet(at.node, Head(parts)) IN
         IF child = NoResult THEN Raise("KeyError") ELSE GetItem(child, Tail(parts))

Selectors == {<<>>, <<"g">>, <<"g", "h">>, <<"a">>, <<"g", "a">>, <<"z">>, <<"g", "z">>, <<"h">>}

\* SelectGroup with the KeyError swallowed: a missing path yields the whole tree.
SelectGroupSwallowsKeyError ==
    /\ pc = "built"
    /\ \E g \in Selectors :
        /\ group' = g
        /\ LET r == GetItem([kind |-> "tree", node |-> tree], g) IN
           result' = IF g # <<>> /\ r.ok THEN r.val ELSE [kind |-> "tree", node |-> tree]
    /\ pc' = "done"
    /\ UNCHANGED <<file, metaEq, stack, tree, loaded, plotVars>>

\* if group: try: return tree[group] except KeyError: raise ValueError(...)
\* return tree.   `group` is first read here, so its value is drawn here.
SelectGroup ==
    /\ pc = "built"
    /\ \E g \in Selectors :
        /\ group' = g
        /\ LET r == GetItem([kind |-> "tree", node |-> tree], g) IN
           result' = IF g = <<>> THEN [kind |-> "tree", node |-> tree]
                     ELSE IF r.ok THEN r.val
                     ELSE IF r.exc = "KeyError"
                     THEN [kind |-> "error", exc |-> "ValueError",
                           msg |-> "Group not found", path |-> g]
                     ELSE Raised(r.exc)
    /\ pc' = "done"
    /\ UNCHANGED <<file, metaEq, stack, tree, loaded, plotVars>>

Idle == [tag |-> "idle"]

InitIngest ==
    /\ file \in Files
    /\ metaEq \in BOOLEAN
    /\ group = <<>>
    /\ pc = "start"
    /\ stack = <<>>
    /\ tree = None
    /\ result = NoResult
    /\ loaded = Idle
    /\ variable = Idle
    /\ call = Idle
    /\ plot = Idle
    /\ screen = Idle

NextIngest ==
    \/ OpenFile
    \/ LoadItem
    \/ BuildDataset
    \/ EnterChild
    \/ ReturnTree
    \/ SelectGroup

SpecIngest == InitIngest /\ [][NextIngest]_vars

(***************************************************************************)
(* The plotted variable (an xr.DataArray of rank >= 3)                     *)
(***************************************************************************)
NaN == [tag |-> "nan"]
DimNames == <<"p", "q", "r", "s", "t", "u">>
Extents == (MaxExtent - 1)..MaxExtent
Shapes == UNION {[1..r -> Extents] : r \in 3..MaxRank}

\* Arrays whose element at row-major offset k is k + 1, optionally with a NaN
\* at offset 0, optionally with a coordinate array for every dimension.
DataArrays ==
    {[name |-> "v", dims |-> SubSeq(DimNames, 1, Len(s)), shape |-> s,
      coords |-> IF k = "coords" THEN {DimNames[i] : i \in 1..Len(s)} ELSE {},
      nans |-> IF k = "nan" THEN {0} ELSE {}] :
        s \in Shapes, k \in {"plain", "coords", "nan"}}

Rank(var) == Len(var.shape)
DimSet(var) == {var.dims[k] : k \in 1..Rank(var)}
Axis(var, dim) == CHOOSE k \in 1..Rank(var) : var.dims[k] = dim
\* variable.sizes[dim]
Sizes(var, dim) == var.shape[Axis(var, dim)]

RECURSIVE Offset(_, _)
Offset(shape, idx) ==
    IF shape = <<>> THEN 0
    ELSE Head(idx) * Product(Tail(shape)) + Offset(Tail(shape), Tail(idx))

\* variable.values[idx], idx 0-based per axis
ValueAt(var, idx) == IF Offset(var.shape, idx) \in var.nans THEN NaN ELSE Num(Offset(var.shape, idx) + 1)
\* variable.coords[dim].values[i]
CoordAt(var, dim, i) == 10 * Axis(var, dim) + i

\* np.nan_to_num(z, nan=0.0), per element
nan_to_num(v) == IF v = NaN THEN Num(0) ELSE v

\* f"{val:.4f}" of a whole number
Format4(val) == ToString(val) \o ".0000"

\* variable.isel(indexers) with integer indexers: each indexed dimension is
\* dropped, the others keep their order; a negative index counts from the end
\* and an index outside [-size, size) raises IndexError.
isel(var, indexers) ==
    LET bad == {d \in DOMAIN indexers :
                    indexers[d] >= Sizes(var, d) \/ indexers[d] < 0 - Sizes(var, d)}
        Kept(d) == d \notin DOMAIN indexers
    IN  IF bad # {} THEN Raise("IndexError")
        ELSE Ok([var |-> var, dims |-> SelectSeq(var.dims, Kept),
                 at |-> [d \in DOMAIN indexers |->
                            IF indexers[d] < 0 THEN indexers[d] + Sizes(var, d)
                            ELSE indexers[d]]])

\* sliced_var.values: nested lists over the kept dimensions, in their order.
Values(sliced) ==
    LET var == sliced.var
        Idx(assign) == [k \in 1..Rank(var) |->
                            IF var.dims[k] \in DOMAIN sliced.at THEN sliced.at[var.dims[k]]
                            ELSE assign[var.dims[k]]]
        d1 == sliced.dims[1]
        d2 == sliced.dims[2]
    IN  IF Len(sliced.dims) = 1
        THEN [i \in 1..Sizes(var, d1) |-> ValueAt(var, Idx([d \in {d1} |-> i - 1]))]
        ELSE [i \in 1..Sizes(var, d1) |->
                [j \in 1..Sizes(var, d2) |->
                    ValueAt(var, Idx([d \in {d1, d2} |-> IF d = d1 THEN i - 1 ELSE j - 1]))]]

\* The loop that fills slice_dict.
SliceDictDefaultsToZero(var, dim1, dim2, slice_positions) ==
    [dim \in DimSet(var) \ {var.dims[dim2 + 1], var.dims[dim1 + 1]} |->
        IF dim \in DOMAIN slice_positions THEN slice_positions[dim] ELSE 0]

SliceDict(var, dim1, dim2, slice_positions) ==
    [dim \in DimSet(var) \ {var.dims[dim2 + 1], var.dims[dim1 + 1]} |->
        IF dim \in DOMAIN slice_positions THEN slice_positions[dim]
        ELSE Sizes(var, dim) \div 2]

\* _plot_variable_nd(dim1, dim2, slice_positions).  flat_ok: whether plotext's
\* matrix_plot accepts a list that is not a list of rows.
plot_variable_nd(var, dim1, dim2, slice_positions, flat_ok) ==
    LET y_dim_name == var.dims[dim1 + 1]
        x_dim_name == var.dims[dim2 + 1]
        slice_dict == SliceDict(var, dim1, dim2, slice_positions)
        sliced_var == isel(var, slice_dict)
        two == Len(sliced_var.val.dims) = 2
        raw == Values(sliced_var.val)
        z == IF two THEN [i \in 1..Len(raw) |-> [j \in 1..Len(raw[i]) |-> nan_to_num(raw[i][j])]]
             ELSE [i \in 1..Len(raw) |-> nan_to_num(raw[i])]
        x_coords == IF x_dim_name \in var.coords
                    THEN [j \in 1..Sizes(var, x_dim_name) |-> CoordAt(var, x_dim_name, j - 1)]
                    ELSE [j \in 1..Len(z[1]) |-> j - 1]
        y_coords == IF y_dim_name \in var.coords
                    THEN [i \in 1..Sizes(var, y_dim_name) |-> CoordAt(var, y_dim_name, i - 1)]
                    ELSE [i \in 1..Len(z) |-> i - 1]
    IN  IF ~sliced_var.ok THEN sliced_var
        ELSE IF ~two /\ x_dim_name \notin var.coords THEN Raise("IndexError")
        ELSE IF ~two /\ ~flat_ok THEN Raise("TypeError")
        ELSE [ok |-> TRUE, z |-> z,
              xticks |-> [j \in 1..Len(x_coords) |-> Format4(x_coords[j])],
              yticks |-> [i \in 1..Len(y_coords) |-> Format4(y_coords[i])],
              xlabel |-> y_dim_name, ylabel |-> x_dim_name,
              slice_dict |-> slice_dict]

\* Arguments of a call: for any subset of the dimensions, the first or the last
\* index of a dimension that is not displayed, and 0 for a displayed one; and
\* for one dimension that is not displayed, the index just before the first
\* (-1) or just beyond the last (its size), the other dimensions left out.
SlicePositions(var, dim1, dim2) ==
    LET shown == {var.dims[dim1 + 1], var.dims[dim2 + 1]}
        inside == {m \in [DimSet(var) -> {"absent", "first", "last"}] :
                    \A d \in shown : m[d] # "last"}
        outside == {[d \in DimSet(var) |-> IF d = e THEN k ELSE "absent"] :
                        e \in DimSet(var) \ shown, k \in {"before", "beyond"}}
        At(d, k) == CASE k = "first" -> 0
                      [] k = "last" -> Sizes(var, d) - 1
                      [] k = "before" -> 0 - 1
                      [] k = "beyond" -> Sizes(var, d)
    IN  {[d \in {e \in DimSet(var) : m[e] # "absent"} |-> At(d, m[d])] :
            m \in inside \cup outside}

\* One call of _plot_variable_nd on the screen's variable.
PlotND ==
    /\ pc = "plot"
    /\ \E dim1 \in 0..(Rank(variable) - 1), dim2 \in 0..(Rank(variable) - 1) :
        \E sp \in SlicePositions(variable, dim1, dim2), flat_ok \in {TRUE, dim1 # dim2} :
            /\ call' = [dim1 |-> dim1, dim2 |-> dim2, slice_positions |-> sp]
            /\ plot' = plot_variable_nd(variable, dim1, dim2, sp, flat_ok)
    /\ pc' = "plotted"
    /\ UNCHANGED <<variable, screen, file, metaEq, group, stack, tree, result, loaded>>

InitProject ==
    /\ variable \in DataArrays
    /\ call = Idle
    /\ plot = Idle
    /\ screen = Idle
    /\ pc = "plot"
    /\ file = Idle
    /\ metaEq = FALSE
    /\ group = <<>>
    /\ stack = <<>>
    /\ tree = None
    /\ result = NoResult
    /\ loaded = Idle

NextProject == PlotND

SpecProject == InitProject /\ [][NextProject]_vars

(***************************************************************************)
(* The N-D plot screen (PlotScreen; PlotNDWidget has the same handlers).   *)
(* Textual delivers the messages of one widget to its handlers one at a    *)
(* time, and a RadioSet lets the user press only a button that is enabled  *)
(* and not already pressed; a Slider moves within its min..max.            *)
(***************************************************************************)
RadioButton(value, disabled) == [value |-> value, disabled |-> disabled]

\* The radio set built by compose: button i pressed iff i = on, disabled iff i = off.
RadioSet(var, on, off) == [k \in 1..Rank(var) |-> RadioButton(k - 1 = on, k - 1 = off)]

\* The radio set after the user presses button i: the set releases the others.
Press(radio_set, i) == [k \in 1..Len(radio_set) |-> [radio_set[k] EXCEPT !.value = (k - 1 = i)]]

\* A handler that leaves every button enabled.
DisableNothing(radio_set, other) == [k \in 1..Len(radio_set) |-> [radio_set[k] EXCEPT !.disabled = FALSE]]

\* radio.disabled = i == other, for every button of the set
Disable(radio_set, other) == [k \in 1..Len(radio_set) |-> [radio_set[k] EXCEPT !.disabled = (k - 1 = other)]]

get_selected_dim(radio_set) ==
    LET on == {k \in 1..Len(radio_set) : radio_set[k].value} IN
    IF on = {} THEN 0 ELSE (CHOOSE k \in on : \A j \in on : k <= j) - 1

\* Slider(0, dim_size - 1, step=1, id=f"slice-{dim}", name=dim, value=dim_size // 2)
Slider(lo, hi, id, name, value) ==
    [id |-> id, name |-> name, min |-> lo, max |-> hi, value |-> value]

\* Sliders created at their minimum instead of the middle.
SlidersAtMinimum(var, dim1, dim2) ==
    LET Sliced(dim) == dim \notin {var.dims[dim1 + 1], var.dims[dim2 + 1]}
        names == SelectSeq(var.dims, Sliced)
    IN  [id |-> "slice-inputs-container",
         children |-> [k \in 1..Len(names) |->
                        Slider(0, Sizes(var, names[k]) - 1, "slice-" \o names[k], names[k], 0)]]

\* create_slice_sliders: the container of one slider per dimension that is
\* neither dims[dim1] nor dims[dim2], in the order of dims.
create_slice_sliders(var, dim1, dim2) ==
    LET Sliced(dim) == dim \notin {var.dims[dim1 + 1], var.dims[dim2 + 1]}
        names == SelectSeq(var.dims, Sliced)
    IN  [id |-> "slice-inputs-container",
         children |-> [k \in 1..Len(names) |->
                        Slider(0, Sizes(var, names[k]) - 1, "slice-" \o names[k], names[k],
                               Sizes(var, names[k]) \div 2)]]

\* PlotextPlot(id="plot-widget") carrying what _plot_variable_nd drew.
PlotWidget(p) == [id |-> "plot-widget", plot |-> p]

\* query_one("#id") among the children of the plot container.
query_one(children, id) == children[CHOOSE k \in 1..Len(children) : children[k].id = id]

\* {slicer.name: slicer.value for slicer in slicers}
SliderValues(slicers) ==
    [dim \in {slicers[k].name : k \in 1..Len(slicers)} |->
        slicers[CHOOSE k \in 1..Len(slicers) :
                    slicers[k].name = dim /\ \A j \in (k + 1)..Len(slicers) : slicers[j].name # dim].value]

\* plot_container.children[-1].remove()
RemoveLast(children) == SubSeq(children, 1, Len(children) - 1)

NoPositions == [dim \in {} |-> 0]

\* compose, for a variable of three or more dimensions.
compose ==
    /\ pc = "compose"
    /\ call' = [dim1 |-> 0, dim2 |-> 1, slice_positions |-> NoPositions]
    /\ plot' = plot_variable_nd(variable, 0, 1, NoPositions, TRUE)
    /\ screen' = [dim1_group |-> RadioSet(variable, 0, 1),
                  dim2_group |-> RadioSet(variable, 1, 0),
                  plot_container |-> <<[id |-> "dim-select-container"],
                                       create_slice_sliders(variable, 0, 1),
                                       PlotWidget(plot')>>]
    /\ pc' = "shown"
    /\ UNCHANGED <<variable, file, metaEq, group, stack, tree, result, loaded>>

\* on_radio_set_changed, after the pressed radio set has taken the press.  An
\* exception of _plot_variable_nd leaves the handler before the widgets are
\* swapped.
RadioSetChanged(dim1_group, dim2_group) ==
    LET dim1 == get_selected_dim(dim1_group)
        dim2 == get_selected_dim(dim2_group)
        slice_inputs == create_slice_sliders(variable, dim1, dim2)
    IN  /\ call' = [dim1 |-> dim1, dim2 |-> dim2, slice_positions |-> NoPositions]
        /\ \E flat_ok \in {TRUE, dim1 # dim2} :
                plot' = plot_variable_nd(variable, dim1, dim2, NoPositions, flat_ok)
        /\ screen' = [dim1_group |-> Disable(dim1_group, dim2),
                      dim2_group |-> Disable(dim2_group, dim1),
                      plot_container |->
                        IF plot'.ok
                        THEN RemoveLast(RemoveLast(screen.plot_container))
                                \o <<slice_inputs, PlotWidget(plot')>>
                        ELSE screen.plot_container]
        /\ pc' = IF plot'.ok THEN "shown" ELSE "crashed"
        /\ UNCHANGED <<variable, file, metaEq, group, stack, tree, result, loaded>>

\* The user presses an enabled, released button of the first radio set.
on_radio_set_changed_1 ==
    /\ pc = "shown"
    /\ \E i \in 0..(Rank(variable) - 1) :
        /\ ~screen.dim1_group[i + 1].disabled
        /\ ~screen.dim1_group[i + 1].value
        /\ RadioSetChanged(Press(screen.dim1_group, i), screen.dim2_group)

\* The user presses an enabled, released button of the second radio set.
on_radio_set_changed_2 ==
    /\ pc = "shown"
    /\ \E i \in 0..(Rank(variable) - 1) :
        /\ ~screen.dim2_group[i + 1].disabled
        /\ ~screen.dim2_group[i + 1].value
        /\ RadioSetChanged(screen.dim1_group, Press(screen.dim2_group, i))

\* on_slider_changed_normal, after the user moved slider k to a new value.
on_slider_changed_normal ==
    /\ pc = "shown"
    /\ LET container == query_one(screen.plot_container, "slice-inputs-container") IN
       \E k \in 1..Len(container.children), value \in 0..(MaxExtent - 1) :
        LET moved == [container EXCEPT !.children[k].value = value]
            slice_positions == SliderValues(moved.children)
            dim1 == get_selected_dim(screen.dim1_group)
            dim2 == get_selected_dim(screen.dim2_group)
            mounted == [j \in 1..Len(screen.plot_container) |->
                            IF screen.plot_container[j].id = "slice-inputs-container"
                            THEN moved ELSE screen.plot_container[j]]
        IN  /\ value \in container.children[k].min..container.children[k].max
            /\ value # container.children[k].value
            /\ call' = [dim1 |-> dim1, dim2 |-> dim2, slice_positions |-> slice_positions]
            /\ \E flat_ok \in {TRUE, dim1 # dim2} :
                    plot' = plot_variable_nd(variable, dim1, dim2, slice_positions, flat_ok)
            /\ screen' = [screen EXCEPT !.plot_container =
                            IF plot'.ok THEN RemoveLast(mounted) \o <<PlotWidget(plot')>>
                            ELSE mounted]
            /\ pc' = IF plot'.ok THEN "shown" ELSE "crashed"
    /\ UNCHANGED <<variable, file, metaEq, group, stack, tree, result, loaded>>

\* The variables the screen is opened on: those without NaN whose extents do
\* not decrease along the dimensions.
ScreenArrays ==
    {v \in DataArrays :
        v.nans = {} /\ \A k \in 1..(Rank(v) - 1) : v.shape[k] <= v.shape[k + 1]}

InitScreen ==
    /\ variable \in ScreenArrays
    /\ call = Idle
    /\ plot = Idle
    /\ screen = Idle
    /\ pc = "compose"
    /\ file = Idle
    /\ metaEq = FALSE
    /\ group = <<>>
    /\ stack = <<>>
    /\ tree = None
    /\ result = NoResult
    /\ loaded = Idle

NextScreen ==
    \/ compose
    \/ on_radio_set_changed_1
    \/ on_radio_set_changed_2
    \/ on_slider_changed_normal

SpecScreen == InitScreen /\ [][NextScreen]_vars

(***************************************************************************)
(* Properties of ingestion                                                 *)
(***************************************************************************)
Built == pc \in {"built", "done"}
Raw(d) == file.dsets[d]

RECURSIVE Nodes(_)
Nodes(n) == {n} \cup UNION {Nodes(c) : c \in n.children}
Arrays(n) == UNION {m.data_vars \cup m.coords : m \in Nodes(n)}

\* Every path of the tree that names a node or a variable.
RECURSIVE TreePaths(_)
TreePaths(n) ==
    {<<>>} \cup {<<v.key>> : v \in n.data_vars \cup n.coords}
    \cup UNION {{<<c.name>> \o p : p \in TreePaths(c)} : c \in n.children}

\* Every node of the tree with its path.
RECURSIVE Located(_)
Located(n) ==
    {<<<<>>, n>>} \cup UNION {{<<<<c.name>> \o q[1], q[2]>> : q \in Located(c)} : c \in n.children}

RECURSIVE HoldsReference(_)
HoldsReference(v) ==
    CASE IsReference(v) -> TRUE
      [] v.tag = "ndarray" -> \E i \in 1..Len(v.data) : HoldsReference(v.data[i])
      [] v.tag = "dict" -> \E it \in v.items : HoldsReference(it[2])
      [] OTHER -> FALSE

Dangling(ref) == ref.tag = "ref" /\ ref.to = NullObj
IsRefBuffer(ds) == ds.dtype = ref_dtype /\ ~ds.corrupt /\ Len(ds.shape) >= 1
IsRegionBuffer(ds) == ds.dtype = regionref_dtype /\ ~ds.corrupt /\ Len(ds.shape) >= 1

\* C1: in a buffer of references where some element is dangling and the others
\* resolve, load_dataset_with_refs returns a buffer with the absent marker at
\* each dangling element and the resolved value at every other element.
C1_DanglingResolvesToAbsent ==
    (/\ loaded # Idle
     /\ IsRefBuffer(Raw(loaded.d))
     /\ \E i \in 1..Len(Raw(loaded.d).data) : Dangling(Raw(loaded.d).data[i])
     /\ \A i \in 1..Len(Raw(loaded.d).data) :
            Dangling(Raw(loaded.d).data[i]) \/ resolve_reference(file, Raw(loaded.d).data[i]).ok)
    => /\ loaded.r.ok
       /\ \A i \in 1..Len(Raw(loaded.d).data) :
            loaded.r.val.data[i] =
                IF Dangling(Raw(loaded.d).data[i]) THEN None
                ELSE resolve_reference(file, Raw(loaded.d).data[i]).val

\* C2: when loading some leaf dataset fails, the tree build does not abort: the
\* exception does not leave hdf5_group_to_datatree and a tree is still built.
C2_LeafFailureIsLocal ==
    (\E d \in Datasets : ~load_dataset_with_refs(file, d, metaEq).ok) => pc # "raised"

C4_PlainPassThrough ==
    (\A d \in Datasets : Raw(d).dtype \notin {ref_dtype, regionref_dtype} /\ ~Raw(d).corrupt)
    => /\ pc # "raised"
       /\ loaded # Idle => loaded.r = ReadDataset(file, loaded.d)
       /\ Built => \A v \in Arrays(tree) : \E d \in Datasets : Ok(v.data) = ReadDataset(file, d)

\* C5: no array of the built tree holds a Reference, at any nesting level.
C5_NoReferenceInTree ==
    Built => \A v \in Arrays(tree) : ~HoldsReference(v.data)

\* C6: each element of a buffer of region references resolves to exactly the
\* designated region lo..hi of the dataset the reference points to.
C6_RegionResolved ==
    (/\ loaded # Idle
     /\ IsRegionBuffer(Raw(loaded.d))
     /\ Raw(loaded.d).data # <<>>
     /\ \A i \in 1..Len(Raw(loaded.d).data) :
            LET t == Raw(Raw(loaded.d).data[i].to) IN
            ~t.corrupt /\ Len(t.shape) >= 1 /\ Raw(loaded.d).data[i].hi <= Len(t.data))
    => /\ loaded.r.ok
       /\ \A i \in 1..Len(Raw(loaded.d).data) :
            LET ref == Raw(loaded.d).data[i] IN
            loaded.r.val.data[i] = Region(ReadDataset(file, ref.to).val, ref.lo, ref.hi)

\* C7: every rank-1 array of a node is a coordinate of the node under its own
\* name, and its single dimension name is its own name.
C7_RankOneIsSelfIndexed ==
    Built => \A n \in Nodes(tree) : \A v \in n.data_vars \cup n.coords :
                Len(v.data.shape) = 1 => v \in n.coords /\ v.dims = <<v.key>>

(***************************************************************************)
(* Properties of _plot_variable_nd                                         *)
(***************************************************************************)
Plotted == pc = "plotted" /\ plot.ok
RowDim == variable.dims[call.dim1 + 1]
ColDim == variable.dims[call.dim2 + 1]

\* The index a dimension that is not displayed is to be fixed at.
Expected(dim) ==
    IF dim \in DOMAIN call.slice_positions THEN call.slice_positions[dim]
    ELSE Sizes(variable, dim) \div 2

\* The source element at row index i, column index j, the rest at Expected.
SourceAt(i, j) ==
    nan_to_num(ValueAt(variable,
        [k \in 1..Rank(variable) |->
            IF k = call.dim1 + 1 THEN i
            ELSE IF k = call.dim2 + 1 THEN j
            ELSE Expected(variable.dims[k])]))

Transpose(z) == [j \in 1..Len(z[1]) |-> [i \in 1..Len(z) |-> z[i][j]]]

\* The elements of a displayed buffer, and the source index each came from
\* (the element at offset k is k + 1, or 0 for the NaN at offset 0).
Elements(z) ==
    IF call.dim1 = call.dim2 THEN {z[i] : i \in 1..Len(z)}
    ELSE UNION {{z[i][j] : j \in 1..Len(z[i])} : i \in 1..Len(z)}
RECURSIVE Unravel(_, _)
Unravel(shape, off) ==
    IF shape = <<>> THEN <<>>
    ELSE <<off \div Product(Tail(shape))>> \o Unravel(Tail(shape), off % Product(Tail(shape)))
IndexOf(v) == Unravel(variable.shape, IF v.v = 0 THEN 0 ELSE v.v - 1)

\* C8: for distinct row and column dimensions the reduced buffer has shape
\* (extent(row), extent(col)) and its element [i][j] is the source element at
\* row = i, col = j with every other dimension at its fixed index.
C8_ReducedBuffer ==
    (Plotted /\ call.dim1 # call.dim2) =>
        /\ Len(plot.z) = Sizes(variable, RowDim)
        /\ \A i \in 1..Len(plot.z) : Len(plot.z[i]) = Sizes(variable, ColDim)
        /\ \A i \in 1..Len(plot.z) : \A j \in 1..Len(plot.z[i]) :
                plot.z[i][j] = SourceAt(i - 1, j - 1)

\* C9: the call with row and column exchanged and the same slice positions
\* yields the transposed buffer and exchanged row and column labels.
C9_SwapIsTranspose ==
    (Plotted /\ call.dim1 # call.dim2) =>
        LET other == plot_variable_nd(variable, call.dim2, call.dim1, call.slice_positions, TRUE) IN
        /\ other.z = Transpose(plot.z)
        /\ other.yticks = plot.xticks
        /\ other.xticks = plot.yticks

\* Every slice position given for a dimension lies in 0..size-1.
InRange ==
    \A dim \in DOMAIN call.slice_positions :
        call.slice_positions[dim] \in 0..(Sizes(variable, dim) - 1)

\* C10: for slice positions within range, exactly the dimensions other than
\* row and column are fixed, each at
\* the index slice_positions gives it, else at extent // 2; every element
\* displayed comes from those indices, and the row and column dimensions run
\* over their whole extent whatever slice_positions says about them.
C10_FixedIndices ==
    (Plotted /\ InRange) =>
        /\ DOMAIN plot.slice_dict = DimSet(variable) \ {RowDim, ColDim}
        /\ \A dim \in DOMAIN plot.slice_dict : plot.slice_dict[dim] = Expected(dim)
        /\ \A v \in Elements(plot.z) : \A dim \in DimSet(variable) \ {RowDim, ColDim} :
                IndexOf(v)[Axis(variable, dim)] = Expected(dim)
        /\ Cardinality(Elements(plot.z)) =
                IF call.dim1 = call.dim2 THEN Sizes(variable, RowDim)
                ELSE Sizes(variable, RowDim) * Sizes(variable, ColDim)

C10_Witness ==
    /\ Plotted
    /\ Rank(variable) = 4
    /\ call.dim1 = 0
    /\ call.dim2 = 2
    /\ DOMAIN call.slice_positions = {"p", "q"}
    /\ call.slice_positions["q"] = Sizes(variable, "q") - 1
    /\ Sizes(variable, "s") = 3
    /\ plot.slice_dict["s"] = 1

\* C11: a call whose row dimension equals its column dimension is rejected
\* with an argument error (ValueError) and produces no projection.
C11_RejectsEqualDims ==
    (pc = "plotted" /\ call.dim1 = call.dim2) => plot = Raise("ValueError")

\* The dimensions fixed by the call whose given slice position is out of range.
OutOfRange ==
    {dim \in DOMAIN call.slice_positions \ {RowDim, ColDim} :
        call.slice_positions[dim] \notin 0..(Sizes(variable, dim) - 1)}

\* C12: a call that gives a fixed dimension an index outside 0..size-1 fails;
\* no projection is computed for it.
C12_RejectsOutOfRange ==
    (pc = "plotted" /\ OutOfRange # {}) => ~plot.ok

(***************************************************************************)
(* Properties of the plot screen                                           *)
(***************************************************************************)
OnScreen == pc \in {"shown", "crashed"}
SelectedRow == get_selected_dim(screen.dim1_group)
SelectedCol == get_selected_dim(screen.dim2_group)
Pressed(radio_set) == {k - 1 : k \in {j \in 1..Len(radio_set) : radio_set[j].value}}
Disabled(radio_set) == {k - 1 : k \in {j \in 1..Len(radio_set) : radio_set[j].disabled}}

\* The slider containers and plots mounted in the plot container.
Mounted(id) == {k \in 1..Len(screen.plot_container) : screen.plot_container[k].id = id}
Sliders == query_one(screen.plot_container, "slice-inputs-container").children
SliderOf(dim) == {k \in 1..Len(Sliders) : Sliders[k].name = dim}
Displayed == screen.plot_container[Len(screen.plot_container)]

\* C13: a change of the row or column selection keeps, for every dimension
\* that has a slider before and after it, the slider's value, and the new plot
\* is sliced at that value.
C13_KeepsFixedIndices ==
    [][(pc = "shown" /\ pc' = "shown" /\ <<SelectedRow, SelectedCol>>' # <<SelectedRow, SelectedCol>>)
        => \A dim \in DOMAIN SliderValues(Sliders) \cap DOMAIN SliderValues(Sliders') :
                /\ SliderValues(Sliders')[dim] = SliderValues(Sliders)[dim]
                /\ plot'.slice_dict[dim] = SliderValues(Sliders)[dim]]_vars

\* C14: on the screen the selected row differs from the selected column, each
\* radio set has one pressed button, and in each set exactly the button of the
\* dimension selected in the other set is disabled.
C14_RowDiffersFromCol ==
    OnScreen =>
        /\ SelectedRow # SelectedCol
        /\ Pressed(screen.dim1_group) = {SelectedRow}
        /\ Pressed(screen.dim2_group) = {SelectedCol}
        /\ Disabled(screen.dim1_group) = {SelectedCol}
        /\ Disabled(screen.dim2_group) = {SelectedRow}

C14_Witness ==
    /\ pc = "shown"
    /\ SelectedRow = 2
    /\ SelectedCol = 0
    /\ Disabled(screen.dim1_group) = {0}
    /\ \E k \in 1..Len(Sliders) : Sliders[k].value # Sizes(variable, Sliders[k].name) \div 2

\* C17: on the screen there is one slider container and, last, one plot; the
\* container holds exactly one slider for each dimension other than the
\* selected row and column and none for those two, each slider's value lies
\* in 0..size-1, and the plot shown is sliced at the sliders' values.
C17_SlidersMatchPlot ==
    pc = "shown" =>
        /\ Cardinality(Mounted("slice-inputs-container")) = 1
        /\ Mounted("plot-widget") = {Len(screen.plot_container)}
        /\ \A dim \in DimSet(variable) :
                Cardinality(SliderOf(dim)) =
                    IF dim \in {variable.dims[SelectedRow + 1], variable.dims[SelectedCol + 1]}
                    THEN 0 ELSE 1
        /\ \A k \in 1..Len(Sliders) :
                /\ Sliders[k].name \in DimSet(variable)
                /\ Sliders[k].value \in 0..(Sizes(variable, Sliders[k].name) - 1)
        /\ Displayed.plot.ok
        /\ Displayed.plot.slice_dict = SliderValues(Sliders)

C17_Witness ==
    /\ pc = "shown"
    /\ Rank(variable) = 4
    /\ SelectedRow = 3
    /\ SelectedCol = 1
    /\ Len(Sliders) = 2
    /\ Sliders[1].name = "p"
    /\ Sliders[1].value = 0
    /\ Displayed.plot.slice_dict["p"] = 0

(***************************************************************************)
(* Properties of the tree builder over every link layout                   *)
(***************************************************************************)
\* The raw group a path of the tree was built from.
RECURSIVE RawGroup(_, _)
RawGroup(g, path) ==
    IF path = <<>> THEN g
    ELSE LET hit == CHOOSE i \in 1..Len(file.links[g]) : file.links[g][i][1] = Head(path)
         IN  RawGroup(file.links[g][hit][2], Tail(path))

\* The names of the datasets linked directly under a raw group.
LeafNames(g) == {file.links[g][i][1] : i \in {j \in 1..Len(file.links[g]) : IsDataset(file.links[g][j][2])}}

\* C15: every dataset directly under a raw group is, under its name, a data
\* array or a coordinate array of the node built from that group.
C15_EveryLeafInNode ==
    Built => \A q \in Located(tree) :
                LeafNames(RawGroup("root", q[1])) \subseteq {v.key : v \in q[2].data_vars \cup q[2].coords}

\* C16: the recursion of hdf5_group_to_datatree is bounded by the container:
\* it never nests deeper than the number of groups and never ends in
\* RecursionError, whatever the links between the groups.
C16_BoundedRecursion ==
    /\ Len(stack) <= Cardinality(Groups)
    /\ result.kind = "error" => result.exc # "RecursionError"

====
